---- MODULE Spec2Model ----
(***************************************************************************)
(* Model of changeset_lifetime (src/src/main.rs): one run of main(), with  *)
(* the git history store as the environment.  Times and durations are in   *)
(* seconds; a history line of `git log --format="%H %aI"` is a record      *)
(* [hash, form, ts] where form tells whether the line has a second field   *)
(* and whether that field parses as RFC 3339.                              *)
(***************************************************************************)
EXTENDS Integers, Sequences, FiniteSets, TLC

VARIABLES pc, status, git_ok, start, end, min_days, files, fp, hist,
          created, clock, changesets, out, summary

vars == <<pc, status, git_ok, start, end, min_days, files, fp, hist,
          created, clock, changesets, out, summary>>

\* ---- bounds of the model ------------------------------------------------
MaxHist == 3
MaxRaw == 2
Times == {60, 150}
StartVals == {0, 150}
EndVals == {60, 210}
MinDaysVals == {0, 120}
NowVals == {150, 270}
ClockStart == CHOOSE n \in NowVals : \A m \in NowVals : n <= m
Paths == {<<".changeset", "a.md">>, <<".changeset", "b.md">>}

\* ---- constants of the program -------------------------------------------
SecsPerMinute == 60
ExitFailure == 1
ExitSuccess == 0
PanicStatus == 101

\* ---- pure helpers -------------------------------------------------------
Range(s) == {s[i] : i \in 1..Len(s)}

SeqsUpTo(S, n) == UNION {[1..k -> S] : k \in 0..n}

Max(a, b) == IF a >= b THEN a ELSE b

\* chrono Duration::num_minutes: whole minutes, truncated toward zero
NumMinutes(d) ==
  IF d >= 0 THEN d \div SecsPerMinute ELSE -((-d) \div SecsPerMinute)

Minutes(m) == m * SecsPerMinute

\* Path::file_name
FileName(p) == p[Len(p)]

\* records of the history: kind "A"/"D", form, ts (0 unless form = "ok")
Events ==
  {[kind |-> k, form |-> "ok", ts |-> t] : k \in {"A", "D"}, t \in Times}
  \cup {[kind |-> k, form |-> f, ts |-> 0] : k \in {"A", "D"}, f \in {"bad", "missing"}}

\* histories of one path, most recent commit first
Histories == SeqsUpTo(Events, MaxHist) \ {<<>>}

\* the lines `git log --diff-filter=<k> --format="%H %aI" -- path` prints:
\* the commits of kind k, most recent first; a commit's hash is its number
\* counted from the oldest commit of the path
RECURSIVE LogLines(_, _)
LogLines(h, k) ==
  IF h = <<>> THEN <<>>
  ELSE LET rest == LogLines(Tail(h), k)
       IN IF Head(h).kind = k
          THEN <<[hash |-> Len(h), form |-> Head(h).form, ts |-> Head(h).ts]>> \o rest
          ELSE rest

\* run_git's post-processing of stdout: trim, drop empty lines
RECURSIVE NonEmptyLines(_)
NonEmptyLines(raw) ==
  IF raw = <<>> THEN <<>>
  ELSE IF Head(raw) = <<>> THEN NonEmptyLines(Tail(raw))
       ELSE <<Head(raw)>> \o NonEmptyLines(Tail(raw))

RunGitLenient(ok, stdout) ==
  [failed |-> FALSE, lines |-> IF ok THEN stdout ELSE <<>>]

\* run_git: ok is output.status.success() (and the spawn succeeding); a
\* failure ends the process, otherwise stdout is split into non-empty lines
RunGit(ok, stdout) ==
  IF ok THEN [failed |-> FALSE, lines |-> NonEmptyLines(stdout)]
  ELSE [failed |-> TRUE, lines |-> <<>>]

\* commit_created: "ok" with the pair, or "panic"
CommitCreated(lines) ==
  IF lines = <<>> THEN [res |-> "panic", hash |-> 0, dt |-> 0]
  ELSE IF lines[1].form = "ok"
       THEN [res |-> "ok", hash |-> lines[1].hash, dt |-> lines[1].ts]
       ELSE [res |-> "panic", hash |-> 0, dt |-> 0]

CommitDeletedStrict(lines) ==
  IF lines = <<>> THEN [res |-> "none", hash |-> 0, dt |-> 0]
  ELSE IF lines[1].form = "ok"
       THEN [res |-> "some", hash |-> lines[1].hash, dt |-> lines[1].ts]
       ELSE [res |-> "panic", hash |-> 0, dt |-> 0]

\* commit_deleted: "some" with the pair, "none", or "panic"
CommitDeleted(lines) ==
  IF lines = <<>> THEN [res |-> "none", hash |-> 0, dt |-> 0]
  ELSE IF lines[1].form = "missing" THEN [res |-> "panic", hash |-> 0, dt |-> 0]
  ELSE IF lines[1].form = "ok"
       THEN [res |-> "some", hash |-> lines[1].hash, dt |-> lines[1].ts]
       ELSE [res |-> "none", hash |-> 0, dt |-> 0]

\* first window filter: created_dt > args.end
CreatedAfterEnd(created_dt, e) == created_dt > e

RemovedNotAfterStart(meta, s) == meta.res = "some" /\ meta.dt <= s

\* second window filter: a delete event before args.start
RemovedBeforeStart(meta, s) == meta.res = "some" /\ meta.dt < s

\* raw age of an entry, before truncation
RawAge(meta, now, created_dt) ==
  IF meta.res = "some" THEN meta.dt - created_dt ELSE now - created_dt

TruncAgeNone(age) == age

\* truncate to minutes
TruncAge(age) == Minutes(NumMinutes(age))

TooYoungExclusive(age, min) == age = 0 \/ age <= min

\* the age filter of the loop: TRUE when the entry is skipped
TooYoung(age, min) == age = 0 \/ age < min

SortsBeforeAscending(a, b) == a.age <= b.age

\* comparator of the sort: TRUE when a must stay before b
SortsBefore(a, b) == a.age >= b.age

RECURSIVE InsertSorted(_, _)
InsertSorted(e, s) ==
  IF s = <<>> THEN <<e>>
  ELSE IF SortsBefore(Head(s), e) THEN <<Head(s)>> \o InsertSorted(e, Tail(s))
       ELSE <<e>> \o s

\* stable sort of changesets by age descending
RECURSIVE SortByAge(_)
SortByAge(s) ==
  IF s = <<>> THEN <<>>
  ELSE InsertSorted(s[Len(s)], SortByAge(SubSeq(s, 1, Len(s) - 1)))

RECURSIVE SumAge(_)
SumAge(s) == IF s = <<>> THEN 0 ELSE Head(s).age + SumAge(Tail(s))

AverageOfAll(s) == Minutes(NumMinutes(SumAge(s)) \div Max(Cardinality(Paths), 1))

\* the mean printed on the summary line
Average(s) == Minutes(NumMinutes(SumAge(s)) \div Max(Len(s), 1))

NoCreated == [hash |-> 0, dt |-> 0]

\* ---- the run -------------------------------------------------------------
Init ==
  /\ pc = "args"
  /\ status = ExitSuccess
  /\ git_ok = TRUE
  /\ start \in StartVals
  /\ end \in EndVals
  /\ min_days \in MinDaysVals
  /\ files = {}
  /\ fp = <<>>
  /\ hist = <<>>
  /\ created = NoCreated
  /\ clock = ClockStart
  /\ changesets = <<>>
  /\ out = <<>>
  /\ summary = <<>>

\* std::process::exit(code), or the exit of a panicking main
Exit(code) == pc' = "exit" /\ status' = code

\* main, lines 107-111: argument validation
CheckArgs ==
  /\ pc = "args"
  /\ IF end <= start THEN Exit(ExitFailure) ELSE pc' = "enumerate" /\ UNCHANGED status
  /\ UNCHANGED <<git_ok, start, end, min_days, files, fp, hist, created, clock,
                 changesets, out, summary>>

\* main, lines 113-125: enumeration of the paths, collected into a HashSet
Enumerate ==
  /\ pc = "enumerate"
  /\ \E ok \in BOOLEAN, raw \in SeqsUpTo(Paths \cup {<<>>}, MaxRaw) :
       LET r == RunGit(ok, raw)
       IN /\ git_ok' = ok
          /\ IF r.failed
             THEN Exit(ExitFailure) /\ UNCHANGED files
             ELSE /\ files' = Range(r.lines)
                  /\ pc' = "loop"
                  /\ UNCHANGED status
  /\ UNCHANGED <<start, end, min_days, fp, hist, created, clock, changesets,
                 out, summary>>

\* loop body, lines 126-127: next path of the set, commit_created
Created ==
  /\ pc = "loop"
  /\ \E p \in files, ok \in BOOLEAN, h \in Histories :
       LET r == RunGit(ok, LogLines(h, "A"))
           c == CommitCreated(r.lines)
       IN /\ files' = files \ {p}
          /\ fp' = p
          /\ hist' = h
          /\ git_ok' = ok
          /\ IF r.failed
             THEN Exit(ExitFailure) /\ created' = NoCreated
             ELSE IF c.res = "panic"
                  THEN Exit(PanicStatus) /\ created' = NoCreated
                  ELSE /\ pc' = "deleted"
                       /\ created' = [hash |-> c.hash, dt |-> c.dt]
                       /\ UNCHANGED status
  /\ UNCHANGED <<start, end, min_days, clock, changesets, out, summary>>

\* the record pushed for the current path
Changeset(meta, age) ==
  [name |-> FileName(fp),
   commit_added |-> created.hash,
   commit_removed |-> IF meta.res = "some" THEN <<meta.hash>> ELSE <<>>,
   age |-> age]

\* loop body, lines 129-162: the window filters, commit_deleted, age, push
Deleted ==
  /\ pc = "deleted"
  /\ IF CreatedAfterEnd(created.dt, end)
     THEN /\ pc' = "skipped"
          /\ UNCHANGED <<status, git_ok, clock, changesets>>
     ELSE \E ok \in BOOLEAN, now \in {n \in NowVals : n >= clock} :
            LET r == RunGit(ok, LogLines(hist, "D"))
                meta == CommitDeleted(r.lines)
                age == TruncAge(RawAge(meta, now, created.dt))
            IN /\ git_ok' = ok
               /\ IF r.failed
                  THEN Exit(ExitFailure) /\ UNCHANGED <<clock, changesets>>
                  ELSE IF meta.res = "panic"
                  THEN Exit(PanicStatus) /\ UNCHANGED <<clock, changesets>>
                  ELSE /\ UNCHANGED status
                       /\ clock' = IF meta.res = "some" THEN clock ELSE now
                       /\ IF RemovedBeforeStart(meta, start) \/ TooYoung(age, min_days)
                          THEN pc' = "skipped" /\ UNCHANGED changesets
                          ELSE /\ pc' = "pushed"
                               /\ changesets' = Append(changesets, Changeset(meta, age))
  /\ UNCHANGED <<start, end, min_days, files, fp, hist, created, out, summary>>

\* end of one iteration (a `continue` or line 162): the locals are dropped
Continue ==
  /\ pc \in {"pushed", "skipped"}
  /\ pc' = "loop"
  /\ fp' = <<>> /\ hist' = <<>> /\ created' = NoCreated
  /\ UNCHANGED <<status, git_ok, start, end, min_days, files, clock,
                 changesets, out, summary>>

\* main, lines 164-174: sort, print the entries and the summary line
Report ==
  /\ pc = "loop"
  /\ files = {}
  /\ changesets' = SortByAge(changesets)
  /\ out' = changesets'
  /\ summary' = <<[n |-> Len(changesets), mean |-> Average(changesets')]>>
  /\ Exit(ExitSuccess)
  /\ UNCHANGED <<git_ok, start, end, min_days, files, fp, hist, created, clock>>

Next == CheckArgs \/ Enumerate \/ Created \/ Deleted \/ Continue \/ Report

Spec == Init /\ [][Next]_vars

\* ---- properties ----------------------------------------------------------
InIteration == pc \in {"deleted", "pushed", "skipped"}

AddLines == LogLines(hist, "A")
DelLines == LogLines(hist, "D")

Last(s) == s[Len(s)]

\* author timestamp of the commit of the current path with the given hash
TsOf(hash) == hist[Len(hist) - hash + 1].ts

\* d cut down to a whole number of minutes, toward zero
WholeMinutes(d) == IF d >= 0 THEN d - (d % 60) ELSE -((-d) - ((-d) % 60))

\* the newest delete line is a usable removal event
HasRemoval == DelLines # <<>> /\ DelLines[1].form = "ok"

\* age of the current path from the resolved events (clock = the reading of
\* Utc::now() when there is no removal event)
EntryAge ==
  WholeMinutes((IF HasRemoval THEN DelLines[1].ts ELSE clock) - created.dt)

PassesWindow ==
  created.dt <= end /\ ~(HasRemoval /\ DelLines[1].ts < start)

Resolved == pc \in {"pushed", "skipped"}

\* C1: the creation event resolved for a path is the last (oldest) line of
\* its most-recent-first add history.
C1_CreatedIsOldestAdd ==
  (InIteration /\ \A i \in 1..Len(AddLines) : AddLines[i].form = "ok")
    => /\ created.hash = Last(AddLines).hash
       /\ created.dt = Last(AddLines).ts

\* C2 (as stated): a path that passes the window filters with an age equal
\* to min_days is excluded; with min_days + 1 minute it is included.
C2_ThresholdExclusive ==
  (Resolved /\ PassesWindow)
    => /\ (EntryAge = min_days => pc = "skipped")
       /\ (EntryAge = min_days + 60 => pc = "pushed")

\* C2 (amended): the threshold is inclusive: a path that passes the window
\* filters is included when its nonzero age equals min_days or is
\* min_days + 1 minute, and excluded when its age is below min_days.
C2_ThresholdInclusive ==
  (Resolved /\ PassesWindow)
    => /\ (EntryAge = min_days /\ EntryAge # 0 => pc = "pushed")
       /\ (EntryAge = min_days + 60 => pc = "pushed")
       /\ (EntryAge < min_days => pc = "skipped")

C2_Witness ==
  /\ pc = "pushed" /\ PassesWindow
  /\ EntryAge = min_days /\ Last(changesets).age = min_days

\* C3: when the creation event of a path cannot be resolved (no add line, or
\* an add line without a parseable timestamp), the run ends with status 1
\* and no report line.
C3_CreationErrorExitsOne ==
  (git_ok /\ hist # <<>> /\ pc # "loop"
     /\ \A i \in 1..Len(AddLines) : AddLines[i].form # "ok")
    => pc = "exit" /\ status = 1 /\ out = <<>> /\ summary = <<>>

\* a failed query ends the run at once with status 1 and nothing printed
QueryFailureIsFatal ==
  ~git_ok => pc = "exit" /\ status = 1 /\ out = <<>> /\ summary = <<>>

\* C4 (as stated): a failed query ends the run with status 1 and no output;
\* an empty result of a successful query is never a failure.
C4_FailureNotEmptiness ==
  /\ QueryFailureIsFatal
  /\ (pc = "exit" /\ status # 0 /\ git_ok)
       => \/ end <= start
          \/ /\ hist # <<>>
             /\ IF created = NoCreated THEN AddLines # <<>> ELSE DelLines # <<>>

\* C4 (amended): a failed query ends the run with status 1 and no output;
\* an empty result of a successful enumeration or delete query is never a
\* failure (an empty add history of an enumerated path does abort the run).
C4_FailureNotEmptinessButAdds ==
  /\ QueryFailureIsFatal
  /\ (pc = "exit" /\ status # 0 /\ git_ok)
       => \/ end <= start
          \/ /\ hist # <<>>
             /\ (created # NoCreated => DelLines # <<>>)

C4_Witness ==
  ~git_ok /\ pc = "exit" /\ status = 1 /\ changesets # <<>> /\ created # NoCreated

\* C5: a path whose most recent history event is an add is reported with no
\* removal commit and with its age measured against the current time.
C5_PresentAtHeadHasNoRemoval ==
  (pc = "pushed" /\ hist[1].kind = "A")
    => /\ Last(changesets).commit_removed = <<>>
       /\ Last(changesets).age = WholeMinutes(clock - created.dt)

\* C6: an entry in the report was created no later than end and was not
\* removed before start; and no path with created <= end and no removal
\* before start is dropped unless its age is zero or below min_days.
C6_WindowFilter ==
  /\ pc = "pushed" =>
       LET e == Last(changesets)
       IN /\ TsOf(e.commit_added) <= end
          /\ (e.commit_removed = <<>> \/ TsOf(e.commit_removed[1]) >= start)
  /\ (pc = "skipped" /\ PassesWindow) => (EntryAge = 0 \/ EntryAge < min_days)

C6_Witness ==
  /\ pc = "pushed"
  /\ Last(changesets).commit_removed # <<>>
  /\ TsOf(Last(changesets).commit_removed[1]) > end
  /\ TsOf(Last(changesets).commit_added) = end

\* C7: every surviving entry has an age that is positive, at least min_days
\* and a whole number of minutes.
C7_AgeOfSurvivors ==
  \A s \in {changesets, out} : \A i \in 1..Len(s) :
    s[i].age > 0 /\ s[i].age >= min_days /\ s[i].age % 60 = 0

C7_Witness ==
  /\ pc = "exit" /\ min_days = 0 /\ Len(out) = 2
  /\ \E i \in 1..2 : out[i].commit_removed # <<>> /\ out[i].age = 60

\* C8: the summary line reports the number of printed entries and their mean
\* age cut to whole minutes (0 when nothing was printed); the summary is
\* printed exactly by the runs that end with status 0.
C8_Summary ==
  /\ (pc = "exit" /\ status = 0) =>
       /\ Len(summary) = 1
       /\ summary[1].n = Len(out)
       /\ summary[1].mean =
            IF Len(out) = 0 THEN 0
            ELSE WholeMinutes(SumAge(out) \div Len(out))
  /\ ~(pc = "exit" /\ status = 0) => summary = <<>> /\ out = <<>>

C8_Witness ==
  /\ pc = "exit" /\ status = 0 /\ Len(out) = 2
  /\ out[1].age = 120 /\ out[2].age = 60 /\ summary[1].mean = 60

C10_SortedByAge ==
  \A i \in 1..(Len(out) - 1) : out[i].age >= out[i + 1].age

C10_Witness ==
  pc = "exit" /\ Len(out) = 2 /\ out[1].age > out[2].age

====
